---------------------------- MODULE Spec2Model ----------------------------
(***************************************************************************)
(* check-up (src/checkup.go): a declarative check runner.  The suite is    *)
(* unmarshalled from YAML, normalised by getConf, every eligible scenario  *)
(* is executed by exec (before hooks, own script, after hooks), a status   *)
(* line is printed per displayable scenario, and signOff/printSummary      *)
(* report the weighted score.                                              *)
(*                                                                         *)
(* Scenario indices are 1-based here (0-based in Go); getIdByName keeps    *)
(* the source's -1 for "not found".  A Go error value is modelled by its   *)
(* text, "nil" for the nil error.  A Go map is a record {isNil, vars}.     *)
(* time.Time values are abstracted: a Duration is "" until it is set.      *)
(***************************************************************************)
EXTENDS Integers, Sequences, FiniteSets

VARIABLES
    yamlConfig,   \* the scenarios case.yaml declares, as yaml.Unmarshal reads them
    Cases,        \* c.Cases: the scenario records
    workdir,      \* package variable workdir (-working-directory)
    verbosity,    \* package variable verbosity (-v / -vv / -vvv)
    pc,           \* position of main
    pos,          \* main's loop: position in getScenarioIds()
    seqNo,        \* main's loop: i, the number shown on the status line
    k,            \* exec's loops: position in Before / After
    trace,        \* history: every RunBash call, in order
    execd,        \* history: every exec(id) that entered its script branch
    printed,      \* history: the glyph printTestStatus showed per scenario
    all,          \* c.all
    successfull,  \* c.successfull
    failed,       \* c.failed
    score,        \* c.score
    summary       \* what printSummary wrote

vars == <<yamlConfig, Cases, workdir, verbosity, pc, pos, seqNo, k, trace, execd,
          printed, all, successfull, failed, score, summary>>

---------------------------------------------------------------------------
(* Bounds of the checked input space *)

\* longest suite of the flag family
MaxCases == 2
\* length of the suites of the environment / working-directory families
EnvCases == 3
\* most before + after entries of the hooked scenario
MaxHooks == 2
\* largest declared weight
MaxWeight == 3

---------------------------------------------------------------------------
(* Values *)

\* os.Getwd(): the directory the process was started in
Cwd == "/cwd"

\* a nil map[string]string
NilEnv == [isNil |-> TRUE, vars |-> {}]

\* a non-nil map[string]string holding the pairs m
MkEnv(m) == [isNil |-> FALSE, vars |-> m]

\* the error of a failed script
ExitErr == "exit status 1"

\* what a bash subprocess can answer: its error and its combined output
Outcomes == {[err |-> "nil", out |-> "ok"], [err |-> ExitErr, out |-> "oops"]}

\* an unset c.score; a set one is the exact quotient num/den in lowest terms,
\* or one of the IEEE results of a division by zero
NoScore == [kind |-> "unset", num |-> 0, den |-> 1]

\* a ScenarioItem as yaml.Unmarshal leaves it: runtime fields at zero values
Item(name, label, script, skip, weight, env, wd, before, after) ==
    [Name |-> name, Case |-> label, Script |-> script, Skip |-> skip,
     Weight |-> weight, GlobalEnv |-> env, Workdir |-> wd,
     Before |-> before, After |-> after,
     Status |-> "", Result |-> "nil", Stdout |-> "", Duration |-> "",
     canShow |-> FALSE, canRun |-> FALSE]

---------------------------------------------------------------------------
(* ScenarioItem methods *)

IsSuccessful(s) == s.Status = "success"

IsFailed(s) == s.Status = "failed"

CanShow(s) == s.canShow

\* RunBash with an empty script forgets to return early
RunBashAlways(s, o) ==
    [s EXCEPT !.Stdout = o.out, !.Result = o.err,
              !.Status = IF o.err = "nil" THEN "success" ELSE "failed"]

\* RunBash: the receiver after the call, o being the subprocess's answer
RunBash(s, o) ==
    IF s.Script # ""
    THEN [s EXCEPT !.Stdout = o.out, !.Result = o.err,
                   !.Status = IF o.err = "nil" THEN "success" ELSE "failed"]
    ELSE s

\* script.Dir = workdir; exec.Cmd runs in the caller's directory when Dir is ""
LaunchDir(s, wd) == IF wd = "" THEN Cwd ELSE wd

---------------------------------------------------------------------------
(* suitConfig helpers *)

RECURSIVE getScenarioIdsFrom(_, _)
getScenarioIdsFrom(cs, j) ==
    IF j > Len(cs) THEN <<>>
    ELSE IF cs[j].Skip THEN getScenarioIdsFrom(cs, j + 1)
    ELSE IF cs[j].canShow \/ cs[j].canRun
         THEN <<j>> \o getScenarioIdsFrom(cs, j + 1)
         ELSE getScenarioIdsFrom(cs, j + 1)

getScenarioIds(cs) == getScenarioIdsFrom(cs, 1)

getScenarioCount(cs) ==
    LET ids == getScenarioIds(cs)
    IN  Cardinality({j \in 1..Len(ids) : CanShow(cs[ids[j]])})

\* the first scenario of that name, or -1
getIdByName(cs, name) ==
    IF \E j \in 1..Len(cs) : cs[j].Name = name
    THEN CHOOSE j \in 1..Len(cs) :
            /\ cs[j].Name = name
            /\ \A h \in 1..(j - 1) : cs[h].Name # name
    ELSE -1

---------------------------------------------------------------------------
(* getConf: the normalisation loop *)

\* os.Getwd() and the -working-directory override
startDir(wd) == IF wd # "" THEN wd ELSE Cwd

\* the running envs forgets to follow a later global_env
nextEnvsFirstOnly(c, envs) ==
    IF envs.isNil /\ ~c.GlobalEnv.isNil THEN c.GlobalEnv ELSE envs

\* envs after the scenario: its own global_env when it has one
nextEnvs(c, envs) ==
    IF ~c.GlobalEnv.isNil THEN c.GlobalEnv ELSE envs

\* wdir after the scenario: its own workdir when it has one
nextWdir(c, wdir) ==
    IF c.Workdir # "" THEN c.Workdir
    ELSE IF wdir = "" THEN Cwd ELSE wdir

\* the scenario as the loop body leaves it
getConfItem(c, envs, wdir) ==
    LET show == c.Case # ""
    IN  [c EXCEPT
           !.GlobalEnv = IF ~c.GlobalEnv.isNil THEN c.GlobalEnv ELSE envs,
           !.Workdir = IF c.Workdir # "" THEN c.Workdir ELSE wdir,
           !.canShow = show,
           !.canRun = show \/ c.Name = "",
           !.Weight = IF show /\ c.Weight = 0 THEN 1 ELSE c.Weight]

RECURSIVE getConfLoop(_, _, _, _)
getConfLoop(cs, j, envs, wdir) ==
    IF j > Len(cs) THEN cs
    ELSE getConfLoop([cs EXCEPT ![j] = getConfItem(cs[j], envs, wdir)],
                     j + 1, nextEnvs(cs[j], envs), nextWdir(cs[j], wdir))

getConf(cs, wd) == getConfLoop(cs, 1, NilEnv, startDir(wd))

---------------------------------------------------------------------------
(* signOff: the tally and the score *)

Abs(x) == IF x < 0 THEN -x ELSE x

RECURSIVE GCD(_, _)
GCD(a, b) == IF b = 0 THEN a ELSE GCD(b, a % b)

\* the float64 quotient a / b
FloatDiv(a, b) ==
    IF b = 0
    THEN [kind |-> IF a = 0 THEN "NaN" ELSE IF a > 0 THEN "+Inf" ELSE "-Inf",
          num |-> 0, den |-> 0]
    ELSE LET g == GCD(Abs(a), Abs(b))
             sgn == IF b < 0 THEN -1 ELSE 1
         IN  [kind |-> "num", num |-> sgn * (a \div g), den |-> sgn * (b \div g)]

\* the tally counts a failure only when the status is "failed"
tallyFailedOnly(acc, item) ==
    IF CanShow(item)
    THEN [all |-> acc.all + 1,
          max |-> acc.max + item.Weight,
          sum |-> IF IsSuccessful(item) THEN acc.sum + item.Weight ELSE acc.sum,
          failed |-> IF IsFailed(item) THEN acc.failed + 1 ELSE acc.failed]
    ELSE acc

\* one round of signOff's loop
tally(acc, item) ==
    IF CanShow(item)
    THEN [all |-> acc.all + 1,
          max |-> acc.max + item.Weight,
          sum |-> IF IsSuccessful(item) THEN acc.sum + item.Weight ELSE acc.sum,
          failed |-> IF IsSuccessful(item) THEN acc.failed ELSE acc.failed + 1]
    ELSE acc

RECURSIVE signOffLoop(_, _, _, _)
signOffLoop(cs, ids, j, acc) ==
    IF j > Len(ids) THEN acc
    ELSE signOffLoop(cs, ids, j + 1, tally(acc, cs[ids[j]]))

signOffTally(cs) ==
    signOffLoop(cs, getScenarioIds(cs), 1,
                [all |-> 0, max |-> 0, sum |-> 0, failed |-> 0])

---------------------------------------------------------------------------
(* printTestStatus *)

\* the glyph of the status line
Glyph(s) == IF IsSuccessful(s) THEN "ok" ELSE "FAILURE"

\* whether the detail block is printed
showsDetail(s, v) == (v > 1 /\ IsFailed(s)) \/ v > 2

\* the detail block indexes c.Cases with getIdByName of every hook name
detailPanics(cs, s) ==
    \/ \E h \in 1..Len(s.Before) : getIdByName(cs, s.Before[h]) = -1
    \/ \E h \in 1..Len(s.After) : getIdByName(cs, s.After[h]) = -1

---------------------------------------------------------------------------
(* The suites and flags the program is started with *)

\* name, label, script and skip in every combination; nothing else declared
FlagItems ==
    {Item(n, c, s, sk, 0, NilEnv, "", <<>>, <<>>) :
        n \in {"", "a"}, c \in {"", "L"}, s \in {"", "s"}, sk \in BOOLEAN}

\* anonymous scenarios with a declared weight (0: none declared)
WeightItems ==
    {Item("", c, s, FALSE, w, NilEnv, "", <<>>, <<>>) :
        c \in {"", "L"}, s \in {"", "s"}, w \in (-1)..MaxWeight}

\* global_env values: absent, declared empty, and two different mappings
Envs == {NilEnv, MkEnv({}), MkEnv({<<"A", "1">>}), MkEnv({<<"A", "2">>})}

EnvItems ==
    {Item("", f[1], "", f[2], 0, e, "", <<>>, <<>>) :
        f \in {<<"L", FALSE>>, <<"L", TRUE>>, <<"", FALSE>>}, e \in Envs}

\* workdir values: absent and two different directories
Dirs == {"", "/w1", "/w2"}

DirItems == {Item("", "L", "s", FALSE, 0, NilEnv, d, <<>>, <<>>) : d \in Dirs}

\* the names a before / after entry can hold; no scenario is named "x"
HookNames == {"a", "b", "x"}

HookSeqs == UNION {[1..m -> HookNames] : m \in 0..MaxHooks}

HookPairs == {p \in HookSeqs \X HookSeqs : Len(p[1]) + Len(p[2]) <= MaxHooks}

\* helper "a" in every combination of label, script and skip; a plain helper
\* "b"; an anonymous scenario holding the hooks, at any place among them
HelperA ==
    {Item("a", c, s, sk, 0, NilEnv, "", <<>>, <<>>) :
        c \in {"", "L"}, s \in {"", "s"}, sk \in BOOLEAN}

HelperB == Item("b", "", "s", FALSE, 0, NilEnv, "", <<>>, <<>>)

HookTops ==
    {Item("", c, s, FALSE, 0, NilEnv, "", p[1], p[2]) :
        c \in {"", "L"}, s \in {"", "s"}, p \in HookPairs}

\* -v, -vv, -vvv as main folds them into verbosity
Verbosities == 0..3

\* the places the hooked scenario can take among the two helpers
Placed(t, a, p) ==
    IF p = 1 THEN <<t, a, HelperB>>
    ELSE IF p = 2 THEN <<a, t, HelperB>>
    ELSE <<a, HelperB, t>>

---------------------------------------------------------------------------
(* main *)

\* flags parsed, case.yaml embedded, c still the zero suitConfig
Start(cs, wd, v) ==
    /\ yamlConfig = cs
    /\ Cases = <<>>
    /\ workdir = wd
    /\ verbosity = v
    /\ pc = "getConf"
    /\ pos = 1
    /\ seqNo = 1
    /\ k = 1
    /\ trace = <<>>
    /\ execd = <<>>
    /\ printed = [j \in 1..Len(cs) |-> ""]
    /\ all = 0
    /\ successfull = 0
    /\ failed = 0
    /\ score = NoScore
    /\ summary = [shown |-> FALSE, passed |-> 0, all |-> 0, failed |-> 0,
                  score |-> NoScore]

Init ==
    \/ \E n \in 1..MaxCases : \E cs \in [1..n -> FlagItems] : Start(cs, "", 0)
    \/ \E x \in WeightItems, y \in WeightItems : Start(<<x, y>>, "", 0)
    \/ \E cs \in [1..EnvCases -> EnvItems] : Start(cs, "", 0)
    \/ \E cs \in [1..EnvCases -> DirItems], wd \in {"", "/o"} : Start(cs, wd, 0)
    \/ \E t \in HookTops, a \in HelperA, p \in 1..3, v \in Verbosities :
          Start(Placed(t, a, p), "", v)

\* the scenario main's loop is at
Top == getScenarioIds(Cases)[pos]

\* the loop's next round, or signOff after the last
Advance ==
    /\ pos' = pos + 1
    /\ pc' = IF pos + 1 > Len(getScenarioIds(Cases)) THEN "signOff" ELSE "exec"

\* a RunBash call as the history records it
Call(top, role, id) ==
    [top |-> top, role |-> role, id |-> id,
     ran |-> Cases[id].Script # "",
     dir |-> LaunchDir(Cases[id], workdir)]

GetConf ==
    /\ pc = "getConf"
    /\ Cases' = getConf(yamlConfig, workdir)
    /\ pc' = "printHeader"
    /\ UNCHANGED <<yamlConfig, workdir, verbosity, pos, seqNo, k, trace, execd, printed,
                   all, successfull, failed, score, summary>>

\* printHeader, then main's test of getScenarioCount
PrintHeader ==
    /\ pc = "printHeader"
    /\ pc' = IF getScenarioCount(Cases) > 0 THEN "exec" ELSE "signOff"
    /\ UNCHANGED <<yamlConfig, Cases, workdir, verbosity, pos, seqNo, k, trace, execd,
                   printed, all, successfull, failed, score, summary>>

\* exec of a scenario without a script: nothing happens
ExecNoScript ==
    /\ pc = "exec"
    /\ Cases[Top].Script = ""
    /\ pc' = "print"
    /\ UNCHANGED <<yamlConfig, Cases, workdir, verbosity, pos, seqNo, k, trace, execd,
                   printed, all, successfull, failed, score, summary>>

\* exec of a scenario with a script: enters the before loop
ExecStart ==
    /\ pc = "exec"
    /\ Cases[Top].Script # ""
    /\ execd' = Append(execd, Top)
    /\ k' = 1
    /\ pc' = "before"
    /\ UNCHANGED <<yamlConfig, Cases, workdir, verbosity, pos, seqNo, trace, printed,
                   all, successfull, failed, score, summary>>

\* one round of exec's before loop
RunBefore ==
    /\ pc = "before"
    /\ k <= Len(Cases[Top].Before)
    /\ LET id == getIdByName(Cases, Cases[Top].Before[k])
       IN  /\ id # -1
           /\ \E o \in Outcomes :
                 Cases' = [Cases EXCEPT ![id] = RunBash(Cases[id], o)]
           /\ trace' = Append(trace, Call(Top, "before", id))
    /\ k' = k + 1
    /\ UNCHANGED <<yamlConfig, workdir, verbosity, pc, pos, seqNo, execd, printed,
                   all, successfull, failed, score, summary>>

\* exec runs the scenario's own script
RunMain ==
    /\ pc = "before"
    /\ k > Len(Cases[Top].Before)
    /\ \E o \in Outcomes :
          Cases' = [Cases EXCEPT ![Top] = RunBash(Cases[Top], o)]
    /\ trace' = Append(trace, Call(Top, "main", Top))
    /\ k' = 1
    /\ pc' = "after"
    /\ UNCHANGED <<yamlConfig, workdir, verbosity, pos, seqNo, execd, printed,
                   all, successfull, failed, score, summary>>

\* one round of exec's after loop
RunAfter ==
    /\ pc = "after"
    /\ k <= Len(Cases[Top].After)
    /\ LET id == getIdByName(Cases, Cases[Top].After[k])
       IN  /\ id # -1
           /\ \E o \in Outcomes :
                 Cases' = [Cases EXCEPT ![id] = RunBash(Cases[id], o)]
           /\ trace' = Append(trace, Call(Top, "after", id))
    /\ k' = k + 1
    /\ UNCHANGED <<yamlConfig, workdir, verbosity, pc, pos, seqNo, execd, printed,
                   all, successfull, failed, score, summary>>

\* c.Cases[-1]: index out of range, the process dies
HookPanic ==
    /\ \/ /\ pc = "before"
          /\ k <= Len(Cases[Top].Before)
          /\ getIdByName(Cases, Cases[Top].Before[k]) = -1
       \/ /\ pc = "after"
          /\ k <= Len(Cases[Top].After)
          /\ getIdByName(Cases, Cases[Top].After[k]) = -1
    /\ pc' = "panic"
    /\ UNCHANGED <<yamlConfig, Cases, workdir, verbosity, pos, seqNo, k, trace, execd,
                   printed, all, successfull, failed, score, summary>>

\* exec's last statement
ExecFinish ==
    /\ pc = "after"
    /\ k > Len(Cases[Top].After)
    /\ Cases' = [Cases EXCEPT ![Top].Duration = "elapsed"]
    /\ pc' = "print"
    /\ UNCHANGED <<yamlConfig, workdir, verbosity, pos, seqNo, k, trace, execd, printed,
                   all, successfull, failed, score, summary>>

\* printTestStatus of a displayable scenario
PrintTestStatus ==
    /\ pc = "print"
    /\ CanShow(Cases[Top])
    /\ ~(showsDetail(Cases[Top], verbosity) /\ detailPanics(Cases, Cases[Top]))
    /\ printed' = [printed EXCEPT ![Top] = Glyph(Cases[Top])]
    /\ seqNo' = seqNo + 1
    /\ Advance
    /\ UNCHANGED <<yamlConfig, Cases, workdir, verbosity, k, trace, execd,
                   all, successfull, failed, score, summary>>

\* printTestStatus dies in its detail block, after the status line
PrintPanic ==
    /\ pc = "print"
    /\ CanShow(Cases[Top])
    /\ showsDetail(Cases[Top], verbosity)
    /\ detailPanics(Cases, Cases[Top])
    /\ printed' = [printed EXCEPT ![Top] = Glyph(Cases[Top])]
    /\ pc' = "panic"
    /\ UNCHANGED <<yamlConfig, Cases, workdir, verbosity, pos, seqNo, k, trace, execd,
                   all, successfull, failed, score, summary>>

\* main prints nothing for a scenario that cannot be shown
NoPrint ==
    /\ pc = "print"
    /\ ~CanShow(Cases[Top])
    /\ Advance
    /\ UNCHANGED <<yamlConfig, Cases, workdir, verbosity, seqNo, k, trace, execd, printed,
                   all, successfull, failed, score, summary>>

SignOff ==
    /\ pc = "signOff"
    /\ LET t == signOffTally(Cases)
       IN  /\ successfull' = t.all - t.failed
           /\ failed' = t.failed
           /\ all' = t.all
           /\ score' = FloatDiv(100 * t.sum, t.max)
    /\ pc' = "printSummary"
    /\ UNCHANGED <<yamlConfig, Cases, workdir, verbosity, pos, seqNo, k, trace, execd,
                   printed, summary>>

PrintSummary ==
    /\ pc = "printSummary"
    /\ summary' = IF all > 0
                  THEN [shown |-> TRUE, passed |-> successfull, all |-> all,
                        failed |-> failed, score |-> score]
                  ELSE summary
    /\ pc' = "done"
    /\ UNCHANGED <<yamlConfig, Cases, workdir, verbosity, pos, seqNo, k, trace, execd,
                   printed, all, successfull, failed, score>>

Next ==
    \/ GetConf
    \/ PrintHeader
    \/ ExecNoScript
    \/ ExecStart
    \/ RunBefore
    \/ RunMain
    \/ RunAfter
    \/ HookPanic
    \/ ExecFinish
    \/ PrintTestStatus
    \/ PrintPanic
    \/ NoPrint
    \/ SignOff
    \/ PrintSummary

Spec == Init /\ [][Next]_vars

---------------------------------------------------------------------------
(* The vocabulary of the properties, from the declared suite *)

\* main has returned, or the process has died
Halted == pc \in {"done", "panic"}

\* signOff has run
SignedOff == pc \in {"printSummary", "done"}

\* skip is false and the scenario is displayable or anonymous
Eligible(c) == ~c.Skip /\ (c.Case # "" \/ c.Name = "")

\* the displayable scenarios that are not skipped
Displayed ==
    {j \in 1..Len(yamlConfig) : ~yamlConfig[j].Skip /\ yamlConfig[j].Case # ""}

\* the eligible scenarios with a script, in declaration order
RECURSIVE EligibleScripted(_)
EligibleScripted(j) ==
    IF j > Len(yamlConfig) THEN <<>>
    ELSE IF Eligible(yamlConfig[j]) /\ yamlConfig[j].Script # ""
         THEN <<j>> \o EligibleScripted(j + 1)
         ELSE EligibleScripted(j + 1)

\* the scenarios whose own script was run as a top-level entry, in order
RECURSIVE MainRuns(_)
MainRuns(j) ==
    IF j > Len(trace) THEN <<>>
    ELSE IF trace[j].role = "main" /\ trace[j].ran
         THEN <<trace[j].id>> \o MainRuns(j + 1)
         ELSE MainRuns(j + 1)

\* the calls made for top-level entry t, in order, as <<role, scenario>>
RECURSIVE CallsOf(_, _)
CallsOf(t, j) ==
    IF j > Len(trace) THEN <<>>
    ELSE IF trace[j].top = t
         THEN <<<<trace[j].role, trace[j].id>>>> \o CallsOf(t, j + 1)
         ELSE CallsOf(t, j + 1)

\* the scenarios a hook list names, in list order, as <<role, scenario>>
RECURSIVE Named(_, _, _)
Named(names, role, j) ==
    IF j > Len(names) THEN <<>>
    ELSE IF \E h \in 1..Len(yamlConfig) : yamlConfig[h].Name = names[j]
         THEN <<<<role, CHOOSE h \in 1..Len(yamlConfig) :
                          /\ yamlConfig[h].Name = names[j]
                          /\ \A g \in 1..(h - 1) : yamlConfig[g].Name # names[j]>>>>
              \o Named(names, role, j + 1)
         ELSE Named(names, role, j + 1)

IsBeforeCall(c) == c[1] = "before"

IsAfterCall(c) == c[1] = "after"

\* the place of a call in exec: before loop, own script, after loop
RoleRank(role) == IF role = "before" THEN 1 ELSE IF role = "main" THEN 2 ELSE 3

\* some before or after entry names no scenario of the suite
HasUnresolved ==
    \E j \in 1..Len(yamlConfig) :
        \E n \in {yamlConfig[j].Before[h] : h \in 1..Len(yamlConfig[j].Before)}
                 \cup {yamlConfig[j].After[h] : h \in 1..Len(yamlConfig[j].After)} :
            \A g \in 1..Len(yamlConfig) : yamlConfig[g].Name # n

RECURSIVE WeightSum(_)
WeightSum(S) ==
    IF S = {} THEN 0
    ELSE LET j == CHOOSE x \in S : TRUE
         IN  Cases[j].Weight + WeightSum(S \ {j})

\* the scoring denominator and numerator as the specification words them
MaxOfSpec == WeightSum(Displayed)

SumOfSpec == WeightSum({j \in Displayed : Cases[j].Status = "success"})

\* the declared workdir of the nearest scenario at or before j that has one
RECURSIVE DirOfSpec(_)
DirOfSpec(j) ==
    IF j = 0 THEN (IF workdir # "" THEN workdir ELSE Cwd)
    ELSE IF yamlConfig[j].Workdir # "" THEN yamlConfig[j].Workdir
    ELSE DirOfSpec(j - 1)

\* the declared global_env of the nearest scenario at or before j that has one
EnvOfSpec(j) ==
    LET D == {h \in 1..j : ~yamlConfig[h].GlobalEnv.isNil}
    IN  IF D = {} THEN NilEnv
        ELSE yamlConfig[CHOOSE h \in D : \A g \in D : g <= h].GlobalEnv

---------------------------------------------------------------------------
(* Properties *)

\* C1 (as claimed): when main returns, the eligible scenarios that have a
\* script are exactly the scenarios whose own script was run as a top-level
\* entry, each once, in ascending declaration order.
C1_EligibleRunOnceInOrder ==
    pc = "done" => MainRuns(1) = EligibleScripted(1)

\* C2 (as claimed): for every top-level execution of a scenario with a
\* script, the helpers run for it before its own script are the existing
\* scenarios its before list names, in list order, those run after its own
\* script are the existing scenarios its after list names, in list order, and
\* no before call follows the own script and no after call precedes it.
C2_HooksAroundMain ==
    Halted =>
        \A h \in 1..Len(execd) :
            LET t == execd[h]
                calls == CallsOf(t, 1)
            IN  /\ SelectSeq(calls, IsBeforeCall)
                      = Named(yamlConfig[t].Before, "before", 1)
                /\ SelectSeq(calls, IsAfterCall)
                      = Named(yamlConfig[t].After, "after", 1)
                /\ \A i, j \in 1..Len(calls) :
                      i < j => RoleRank(calls[i][1]) <= RoleRank(calls[j][1])

\* C3 (as claimed): after signOff the score is 100 * sum / max, successful
\* is total minus failed, and failed is the number of displayable non-skipped
\* scenarios whose status is failed.
C3_ScoreAndFailedStatus ==
    SignedOff =>
        /\ score = FloatDiv(100 * SumOfSpec, MaxOfSpec)
        /\ successfull = all - failed
        /\ failed = Cardinality({j \in Displayed : Cases[j].Status = "failed"})

\* C3 (amended): after signOff the score is the quotient 100 * sum / max,
\* total is the number of displayable non-skipped scenarios, successful is
\* total minus failed, and failed is the number of displayable non-skipped
\* scenarios whose status is not success (failed or never run).
C3_ScoreAndNotSuccessful ==
    SignedOff =>
        /\ score = FloatDiv(100 * SumOfSpec, MaxOfSpec)
        /\ all = Cardinality(Displayed)
        /\ successfull = all - failed
        /\ failed = Cardinality({j \in Displayed : Cases[j].Status # "success"})

\* C3 witness: weights 1 and 3, the first successful and the second failed,
\* reported as 1 successful, 1 failed, score 25.
C3_Witness ==
    /\ pc = "done"
    /\ Len(Cases) = 2
    /\ Displayed = {1, 2}
    /\ Cases[1].Weight = 1 /\ Cases[1].Status = "success"
    /\ Cases[2].Weight = 3 /\ Cases[2].Status = "failed"
    /\ summary = [shown |-> TRUE, passed |-> 1, all |-> 2, failed |-> 1,
                  score |-> [kind |-> "num", num |-> 25, den |-> 1]]

\* C4 (as claimed): whenever the scoring denominator is zero, signOff divides
\* nothing by it and the summary reports the score as not applicable.
C4_ZeroDenominatorNotApplicable ==
    (SignedOff /\ MaxOfSpec = 0) =>
        /\ score.kind \notin {"NaN", "+Inf", "-Inf"}
        /\ pc = "done" => (summary.shown /\ summary.score.kind = "n/a")

\* C5 (as claimed): a suite with a before or after entry that names no
\* scenario never has a script executed and never indexes c.Cases with -1.
C5_UnresolvedRejectedBeforeRun ==
    HasUnresolved =>
        /\ pc # "panic"
        /\ \A j \in 1..Len(trace) : ~trace[j].ran

\* C6 (as claimed): after getConf every displayable scenario has a weight of
\* at least 1.
C6_DisplayableWeightPositive ==
    pc # "getConf" =>
        \A j \in 1..Len(Cases) : Cases[j].Case # "" => Cases[j].Weight >= 1

\* C7 (as claimed): every script is launched in the resolved working
\* directory of its scenario: its own workdir, else that of the nearest
\* preceding scenario that set one, else the override or the process's.
C7_LaunchedInResolvedWorkdir ==
    \A j \in 1..Len(trace) :
        trace[j].ran => trace[j].dir = DirOfSpec(trace[j].id)

\* C8: after getConf the environment mapping of every scenario is its own
\* declared one, else the declared one of the most recent earlier scenario
\* that declared one, else empty; skip and label play no part.
C8_EnvIsLeftFold ==
    pc # "getConf" =>
        /\ Len(Cases) = Len(yamlConfig)
        /\ \A j \in 1..Len(Cases) : Cases[j].GlobalEnv = EnvOfSpec(j)

\* C8 witness: two scenarios declare different mappings, the second of them
\* skipped, and a later scenario that declares none has the second's.
C8_Witness ==
    /\ pc = "done"
    /\ Len(yamlConfig) >= 3
    /\ ~yamlConfig[1].GlobalEnv.isNil
    /\ ~yamlConfig[2].GlobalEnv.isNil
    /\ yamlConfig[2].GlobalEnv # yamlConfig[1].GlobalEnv
    /\ yamlConfig[2].Skip
    /\ yamlConfig[3].GlobalEnv.isNil
    /\ Cases[3].GlobalEnv = yamlConfig[2].GlobalEnv

\* C9: every status is unrun (""), success or failed; a scenario without a
\* script keeps status, stdout, result and duration at their zero values,
\* and no call is ever made for it as a top-level entry.
C9_ScriptlessStaysUnrun ==
    \A j \in 1..Len(Cases) :
        /\ Cases[j].Status \in {"", "success", "failed"}
        /\ yamlConfig[j].Script = "" =>
              /\ Cases[j].Status = ""
              /\ Cases[j].Stdout = ""
              /\ Cases[j].Result = "nil"
              /\ Cases[j].Duration = ""
              /\ \A h \in 1..Len(trace) : trace[h].top # j
              /\ \A h \in 1..Len(execd) : execd[h] # j

\* C9 witness: main has returned after a displayable scenario without a
\* script, whose before list names an existing helper, had its turn, and a
\* status line was printed for it.
C9_Witness ==
    /\ pc = "done"
    /\ \E j \in 1..Len(Cases) :
          /\ yamlConfig[j].Script = ""
          /\ printed[j] # ""
          /\ Len(yamlConfig[j].Before) > 0
          /\ getIdByName(Cases, yamlConfig[j].Before[1]) # -1
          /\ Cases[getIdByName(Cases, yamlConfig[j].Before[1])].Script # ""

\* C10 (as claimed): at scoring time every displayable non-skipped scenario
\* has the outcome its status line showed.
C10_CountedAsShown ==
    SignedOff => \A j \in Displayed : printed[j] = Glyph(Cases[j])

=============================================================================
